---- MODULE Spec2Model ----
(***************************************************************************)
(* The session broker of identity-test-bridge (src/src/bridge.ts, class    *)
(* Bridge, lines 23-382) as a state machine.                               *)
(*                                                                         *)
(* The bridge runs on one event loop.  Every action below is one task of   *)
(* that loop: a host call arriving, a storage event of the router being    *)
(* delivered, a timer of the liveness monitor firing, or the response of   *)
(* a remote call arriving, together with all the promise reactions         *)
(* (microtasks) the task triggers, up to the next await that suspends.     *)
(*                                                                         *)
(* A provider frame is identified by the id of the login call that         *)
(* launched it (a login call launches at most one frame).                  *)
(*                                                                         *)
(* The storage listeners and the liveness monitor come from a library      *)
(* imported at bridge.ts:3-14.  A listener is modelled as a subscription   *)
(* that settles once when its key is observed and removes itself, as the   *)
(* in-repository listener of src/unnamed/part_009:379-410 does;            *)
(* controller.cleanup() unsubscribes and leaves the promise pending.       *)
(* A storage event is delivered to every listener subscribed at the time.  *)
(* The response of a remote call travels over the connection: it arrives   *)
(* only while the connection is open.                                      *)
(***************************************************************************)
EXTENDS Integers, Sequences, FiniteSets, TLC

\* ---------------------------------------------------------------- bounds
MaxCalls == 2

CallIds == 1..MaxCalls
Names == {"identity", "files"}
Providers == {"m1", "m2"}
Methods == {"getProfile"}
Values == {"v1"}
SkappInfos == {"skapp"}
\* The addresses the router can submit: a string is held as its scheme prefixes
\* and its dot-separated segments ("skylink" has no scheme and one segment).
Urls == {[scheme |-> <<>>, segs |-> <<"skylink">>]}

\* ----------------------------------------------------------- values
NoInfo == "undefined"
EmptyUrl == [scheme |-> <<>>, segs |-> <<"">>]
NoSrc == [scheme |-> <<>>, segs |-> <<>>]
Rejected == "rejected"

\* A JavaScript value, tagged with its kind: a string, a finite number, NaN,
\* undefined, null, an array of values, an object (its entries <<key, value>> in
\* insertion order).
Str(s) == [k |-> "str", v |-> s]
Num(x) == [k |-> "num", v |-> x]
NaN == [k |-> "nan", v |-> "NaN"]
Undefined == [k |-> "undefined", v |-> "undefined"]
Null == [k |-> "null", v |-> "null"]
Arr(a) == [k |-> "arr", v |-> a]
Obj(e) == [k |-> "obj", v |-> e]

\* o[key] of an object.
Get(o, key) ==
    LET at == {i \in 1..Len(o.v) : o.v[i][1] = key}
    IN  IF at = {} THEN Undefined ELSE o.v[CHOOSE i \in at : TRUE][2]

\* The ProviderMetadata of the provider served from domain d.
Meta(d) == Obj(<< <<"info", Obj(<< <<"name", Str(d)>>, <<"domain", Str(d)>> >>)>> >>)
Metas == {Meta(d) : d \in Providers}

\* A provider that answers getProviderMetadata with null, and a remote call for
\* metadata that rejects.
NoMeta == Null
RejectedMeta == [k |-> "rejected", v |-> Rejected]

\* The argument lists the host passes to a capability call after the method name.
ArgLists == {<<>>, <<Str("x"), Arr(<<Str("y"), Str("z")>>)>>}

ErrNoSkappInfo == "getBridgeMetadata() with skappInfo was not called"
ErrAlreadyLoaded == "already loaded"
ErrNotFound == "not found"
ErrNotConnected == "Provider not connected, cannot access dac"
ErrStoredNotFound == "Stored provider not found"
ErrWindowClosed == "Window was closed"
ErrRouter == "router error"
ErrRouterTimedOut == "Router timed out"
ErrNoValue == "Storage event data value not found"
ErrHandshake == "handshake timeout"
ErrRemote == "remote call failed"
ErrLoginPopup == "Could not login with user input"
ErrLoginSilent == "Could not login silently"
ErrTypeError == "TypeError"

VARIABLES
    successRouter, \* whether localStorage holds an item under the key success-router
    hasLocalStorage, \* whether the global localStorage is an object (bridge.ts:291)
    trial,      \* a persistence or address operation applied on its own: input and result
    skappInfo,  \* Bridge.skappInfo
    dacs,       \* Bridge.dacs: name -> id of the registered ProviderInfo, 0 = absent
    stored,     \* localStorage: the item under each key dac:<name>
    frames,     \* provider frames and their connections, by launching call
    calls,      \* the host's calls of loginPopup, loginSilent and logout
    emitted,    \* what the bridge wrote to the router's signalling channel
    router,     \* the router window: "closed" (absent or not responding), "open",
                \* "submitted" (address written, listening for the bridge's answer),
                \* "answered" (an answer of the bridge observed)
    nextCall    \* id of the next host call

\* What no operation of the bridge changes.
fixed == <<hasLocalStorage, trial>>

vars == <<skappInfo, dacs, stored, frames, calls, emitted, router, nextCall, successRouter, fixed>>

IdleCall ==
    [op |-> "none", name |-> "none", pc |-> "idle", result |-> "pending",
     lUrl |-> FALSE, lLong |-> FALSE, lPing |-> FALSE,
     cause |-> "none", settledAt |-> "none", info |-> 0, disc |-> "none",
     url |-> NoSrc, method |-> "none", args |-> <<>>, sent |-> <<>>, remote |-> <<>>]

NoFrame ==
    [st |-> "none", chan |-> "none", hs |-> "none", meta |-> NoMeta, conn |-> "none",
     src |-> NoSrc]

\* dacStorageKey without the name: one key for every dac.
dacStorageKey_Shared(dacName) == "dac:"

\* bridge.ts:323-325
dacStorageKey(dacName) == "dac:" \o dacName

StorageKeys == {dacStorageKey(n) : n \in Names}

\* localStorage.getItem of a key that has no item.
NoItem == [k |-> "noitem", v |-> "null"]

RECURSIVE JSONvalue(_)
\* What JSON.stringify writes for a value that is not undefined: a property whose
\* value is undefined is left out, undefined in an array and a number that is
\* not finite are written as null.
JSONvalue(x) ==
    CASE x.k = "nan" -> Null
      [] x.k = "arr" ->
            Arr([i \in 1..Len(x.v) |->
                    IF x.v[i].k = "undefined" THEN Null ELSE JSONvalue(x.v[i])])
      [] x.k = "obj" ->
            LET kept == SelectSeq(x.v, LAMBDA e : e[2].k # "undefined")
            IN  Obj([i \in 1..Len(kept) |-> <<kept[i][1], JSONvalue(kept[i][2])>>])
      [] OTHER -> x

\* JSON.stringify(x) as the string that localStorage.setItem stores
\* (bridge.ts:380); JSON.stringify(undefined) is undefined, stored as "undefined".
JSONstringify(x) ==
    [k |-> "text", v |-> IF x.k = "undefined" THEN Undefined ELSE JSONvalue(x)]

\* JSON.parse(text) (bridge.ts:300) of a text that JSON.stringify wrote.
JSONparse(text) == text.v

\* What an earlier page load may have left in localStorage: nothing, or a record
\* under every name.
StoredAtLoad ==
    {[key \in StorageKeys |-> NoItem], [key \in StorageKeys |-> JSONstringify(Meta("m1"))]}

NoTrial == [step |-> "none"]

\* The bridge after Bridge.initialize (bridge.ts:48-72).
BridgeInit ==
    /\ skappInfo = NoInfo
    /\ dacs = [n \in Names |-> 0]
    /\ stored \in StoredAtLoad
    /\ frames = [c \in CallIds |-> NoFrame]
    /\ calls = [c \in CallIds |-> IdleCall]
    /\ emitted = {}
    /\ router \in {"closed", "open"}
    /\ nextCall = 1
    /\ successRouter = FALSE

Init ==
    /\ hasLocalStorage = TRUE
    /\ trial = NoTrial
    /\ BridgeInit

\* ------------------------------------------------------------ helpers

\* FinallyCleanup without controllerProviderUrl.cleanup().
FinallyCleanup_KeepUrl(r) ==
    [r EXCEPT !.lLong = FALSE, !.lPing = FALSE]

\* FinallyCleanup without controllerLong.cleanup().
FinallyCleanup_KeepLong(r) ==
    [r EXCEPT !.lUrl = FALSE, !.lPing = FALSE]

\* bridge.ts:195-200, the finally of loginPopup: the three controllers' cleanup.
FinallyCleanup(r) ==
    [r EXCEPT !.lUrl = FALSE, !.lLong = FALSE, !.lPing = FALSE]

\* resolve()/reject() of loginPopup's promise (bridge.ts:130-188) followed by the
\* catch/finally chain of bridge.ts:190-200.  Settling a settled promise is a no-op.
Settle(r, res, why) ==
    IF r.result = "pending"
    THEN FinallyCleanup([r EXCEPT !.result = res, !.cause = why, !.settledAt = r.pc])
    ELSE r

\* bridge.ts:360-362
setProviderConnected(d, n, info) == [d EXCEPT ![n] = info]

\* bridge.ts:364-366
setProviderDisconnected(d, n) == [d EXCEPT ![n] = 0]

\* saveStoredProvider without the test for localStorage.
saveStoredProvider_NoGuard(s, n, m) ==
    [s EXCEPT ![dacStorageKey(n)] = JSONstringify(m)]

\* bridge.ts:374-381
saveStoredProvider(s, n, m) ==
    IF ~hasLocalStorage THEN s
    ELSE [s EXCEPT ![dacStorageKey(n)] = JSONstringify(m)]

\* bridge.ts:304-311
clearStoredProvider(s, n) ==
    IF ~hasLocalStorage THEN s
    ELSE [s EXCEPT ![dacStorageKey(n)] = NoItem]

\* checkForStoredProvider returning the stored text without JSON.parse.
checkForStoredProvider_NoParse(n) ==
    IF ~hasLocalStorage THEN Null
    ELSE IF stored[dacStorageKey(n)] = NoItem THEN Null
    ELSE stored[dacStorageKey(n)]

\* bridge.ts:290-302
checkForStoredProvider(n) ==
    IF ~hasLocalStorage THEN Null
    ELSE IF stored[dacStorageKey(n)] = NoItem THEN Null
    ELSE JSONparse(stored[dacStorageKey(n)])

\* The portal host of the bridge page, to which getSkylinkUrl prepends the
\* skylink (bridge.ts:315-316).
PortalHost == <<"bridge", "siasky", "net">>

\* client.getSkylinkUrl(url, {subdomain: true}) as bridge.ts:315-316 describes it:
\* the base32 skylink prepended to the existing subdomain of the portal.
getSkylinkUrl(u) ==
    [scheme |-> <<"https://">>, segs |-> <<"b32-" \o u.segs[Len(u.segs)]>> \o PortalHost]

\* splice(0, 1) in place of splice(1, 1): the first element is dropped.
splice11_First(arr) ==
    IF Len(arr) >= 1 THEN Tail(arr) ELSE arr

\* providerUrlArr.splice(1, 1) of bridge.ts:318.
splice11(arr) ==
    IF Len(arr) >= 2 THEN <<arr[1]>> \o SubSeq(arr, 3, Len(arr)) ELSE arr

\* formatProviderUrl without the splice: the subdomain of the bridge page stays
\* in the address.
formatProviderUrl_NoSplice(u) ==
    getSkylinkUrl(u)

\* bridge.ts:313-321: split on ".", drop the element of index 1, join.
formatProviderUrl(u) ==
    LET full == getSkylinkUrl(u)
    IN  [scheme |-> full.scheme, segs |-> splice11(full.segs)]

\* utils.ts:5-7, the src of the frame that createIframe creates.
createIframeSrc(u) ==
    IF u.scheme # <<>> /\ Head(u.scheme) = "https://"
    THEN u
    ELSE [u EXCEPT !.scheme = <<"https://">> \o u.scheme]

\* providerMetadata.info.domain (bridge.ts:230) of a stored record.
domain(m) ==
    [scheme |-> <<>>, segs |-> <<Get(Get(m, "info"), "domain").v, "hns", "siasky", "net">>]

\* bridge.ts:337, createIframe: the frame is attached, the handshake is under way.
LaunchedFrame ==
    [st |-> "attached", chan |-> "none", hs |-> "pending", meta |-> NoMeta, conn |-> "none",
     src |-> NoSrc]

\* bridge.ts:332-348, launchProvider(providerUrl) up to the handshake.
launchProvider(providerUrl) ==
    [LaunchedFrame EXCEPT !.src = createIframeSrc(providerUrl)]

\* ------------------------------------------------------------ actions

\* The router after the bridge wrote to the signalling channel: its listener for
\* the bridge's keys, registered at the submit, takes the first signal written
\* and removes itself (part_000:85-97).
Hears(r, before, after) ==
    IF r = "submitted" /\ after # before THEN "answered" ELSE r

\* bridge.ts:90-93
GetBridgeMetadata(s) ==
    /\ skappInfo' = s
    /\ UNCHANGED <<dacs, stored, frames, calls, emitted, router, nextCall, successRouter, fixed>>

\* The tunnel opens the router window (loginPopup doc comment, bridge.ts:98).
LaunchRouter ==
    /\ router = "closed"
    /\ router' = "open"
    /\ UNCHANGED <<skappInfo, dacs, stored, frames, calls, emitted, nextCall, successRouter, fixed>>

\* bridge.ts:115-154: listeners set up, preconditions checked, await promiseProviderUrl.
\* A failed precondition is thrown inside the try of bridge.ts:142-171.
StartLoginPopup(n) ==
    LET c == nextCall
        r0 == [IdleCall EXCEPT !.op = "loginPopup", !.name = n, !.pc = "start",
                               !.lUrl = TRUE, !.lLong = TRUE, !.lPing = TRUE]
        err == IF skappInfo = NoInfo THEN ErrNoSkappInfo
               ELSE IF dacs[n] # 0 THEN ErrAlreadyLoaded
               ELSE "none"
    IN  /\ nextCall \in DOMAIN calls
        /\ nextCall' = nextCall + 1
        /\ IF err # "none"
           THEN /\ emitted' = emitted \cup {<<c, "error">>}
                /\ calls' = [calls EXCEPT ![c] =
                                [Settle(r0, err, "executor") EXCEPT !.pc = "done"]]
           ELSE /\ emitted' = emitted
                /\ calls' = [calls EXCEPT ![c] = [r0 EXCEPT !.pc = "awaitUrl"]]
        /\ router' = Hears(router, emitted, emitted')
        /\ UNCHANGED <<skappInfo, dacs, stored, frames, successRouter, fixed>>

\* bridge.ts:216-230: preconditions, stored record read, launchProvider up to its
\* first await.
StartLoginSilent(n) ==
    LET c == nextCall
        r0 == [IdleCall EXCEPT !.op = "loginSilent", !.name = n, !.pc = "start"]
        err == IF dacs[n] # 0 THEN ErrAlreadyLoaded
               ELSE IF checkForStoredProvider(n) = NoMeta THEN ErrStoredNotFound
               ELSE "none"
    IN  /\ nextCall \in DOMAIN calls
        /\ nextCall' = nextCall + 1
        /\ IF err # "none"
           THEN /\ calls' = [calls EXCEPT ![c] =
                                [r0 EXCEPT !.pc = "done", !.result = err]]
                /\ frames' = frames
           ELSE /\ calls' = [calls EXCEPT ![c] =
                                [r0 EXCEPT !.pc = "awaitHandshake", !.info = c]]
                /\ frames' = [frames EXCEPT ![c] =
                                 launchProvider(domain(checkForStoredProvider(n)))]
        /\ UNCHANGED <<skappInfo, dacs, stored, emitted, router, successRouter, fixed>>

\* bridge.ts:252-261: lookup, guard, disconnect called on the provider.
StartLogout(n) ==
    LET c == nextCall
        i == dacs[n]
        r0 == [IdleCall EXCEPT !.op = "logout", !.name = n, !.pc = "start"]
    IN  /\ nextCall \in DOMAIN calls
        /\ nextCall' = nextCall + 1
        /\ calls' = [calls EXCEPT ![c] =
              IF i = 0
              THEN [r0 EXCEPT !.pc = "done", !.result = ErrAlreadyLoaded]
              ELSE [r0 EXCEPT !.pc = "awaitDisconnect", !.info = i,
                              !.remote = <<"disconnect">>]]
        /\ UNCHANGED <<skappInfo, dacs, stored, frames, emitted, router, successRouter, fixed>>

\* ------------------------------------------------- the router's signals

\* The calls whose provider-URL listener (bridge.ts:117-119) is subscribed.
UrlListeners == {c \in DOMAIN calls : calls[c].lUrl /\ calls[c].pc = "awaitUrl"}

\* The calls whose router listener (bridge.ts:121) is subscribed.
LongListeners == {c \in DOMAIN calls : calls[c].lLong}

\* The catch of bridge.ts:166-171 for call record r: reject(err), executor ends.
PopupCatch(r, err) == [Settle(r, err, "executor") EXCEPT !.pc = "done"]

\* The router's submit (part_000:55-80, 119: returnMessage("success", url, true))
\* observed by the provider-URL listeners. returnMessage removes the key and then
\* sets it (part_000:169-170): when the key was present the removal is a storage
\* event of its own, with no new value, and it is the first one a listener hears.
\* A listener unsubscribes and removes the key on the first event it hears
\* (part_009:388-389); a value or a missing value settles it (part_009:391-396).
\* With a value promiseProviderUrl resolves and each executor runs
\* bridge.ts:154-160 up to the handshake; without one the executor takes the catch.
\* With no listener subscribed the item stays in storage.
RouterSubmit(u) ==
    /\ router = "open"
    /\ router' = IF (u = EmptyUrl \/ successRouter) /\ UrlListeners # {}
                 THEN "answered" ELSE "submitted"
    /\ successRouter' = (UrlListeners = {})
    /\ IF u = EmptyUrl \/ successRouter
       THEN /\ calls' = [c \in DOMAIN calls |->
                            IF c \in UrlListeners
                            THEN PopupCatch([calls[c] EXCEPT !.lUrl = FALSE], ErrNoValue)
                            ELSE calls[c]]
            /\ emitted' = emitted \cup {<<c, "error">> : c \in UrlListeners}
            /\ frames' = frames
       ELSE /\ calls' = [c \in DOMAIN calls |->
                            IF c \in UrlListeners
                            THEN [calls[c] EXCEPT !.lUrl = FALSE, !.url = u,
                                                  !.pc = "awaitHandshake", !.info = c]
                            ELSE calls[c]]
            /\ emitted' = emitted
            /\ frames' = [c \in DOMAIN frames |->
                            IF c \in UrlListeners
                            THEN launchProvider(formatProviderUrl(u))
                            ELSE frames[c]]
    /\ UNCHANGED <<skappInfo, dacs, stored, nextCall, fixed>>

\* The router window closes (part_000:13-20): before a submit it signals "closed",
\* which rejects promiseLong (bridge.ts:132-135); after a submit it signals nothing.
RouterClose ==
    /\ router \in {"open", "submitted", "answered"}
    /\ router' = "closed"
    /\ calls' = [c \in DOMAIN calls |->
                    IF router = "open" /\ c \in LongListeners
                    THEN Settle(calls[c], ErrWindowClosed, "closed")
                    ELSE calls[c]]
    /\ UNCHANGED <<skappInfo, dacs, stored, frames, emitted, nextCall, successRouter, fixed>>

\* An error inside the router (part_000:22-28): signalled, and the window closes.
RouterError ==
    /\ router \in {"open", "submitted", "answered"}
    /\ router' = "closed"
    /\ calls' = [c \in DOMAIN calls |->
                    IF c \in LongListeners
                    THEN Settle(calls[c], ErrRouter, "routerError")
                    ELSE calls[c]]
    /\ UNCHANGED <<skappInfo, dacs, stored, frames, emitted, nextCall, successRouter, fixed>>

\* The router stops responding without a signal.
RouterHang ==
    /\ router = "open"
    /\ router' = "closed"
    /\ UNCHANGED <<skappInfo, dacs, stored, frames, calls, emitted, nextCall, successRouter, fixed>>

\* PingTimeout rejecting with the reason of a closed router window.
PingTimeout_WrongReason(c) ==
    /\ calls[c].lPing
    /\ router = "closed"
    /\ calls' = [calls EXCEPT ![c] = Settle(calls[c], ErrWindowClosed, "ping")]
    /\ UNCHANGED <<skappInfo, dacs, stored, frames, emitted, router, nextCall, successRouter, fixed>>

\* PingTimeout with no handler on promisePing: the rejection is lost.
PingTimeout_Unhandled(c) ==
    /\ calls[c].lPing
    /\ router = "closed"
    /\ calls' = [calls EXCEPT ![c].lPing = FALSE]
    /\ UNCHANGED <<skappInfo, dacs, stored, frames, emitted, router, nextCall, successRouter, fixed>>

\* The liveness monitor of call c (bridge.ts:123-127) gets no answer from the
\* router within defaultWindowTimeout: promisePing rejects (bridge.ts:136-138).
PingTimeout(c) ==
    /\ calls[c].lPing
    /\ router = "closed"
    /\ calls' = [calls EXCEPT ![c] = Settle(calls[c], ErrRouterTimedOut, "ping")]
    /\ UNCHANGED <<skappInfo, dacs, stored, frames, emitted, router, nextCall, successRouter, fixed>>

\* ------------------------------------------------- launchProvider

\* LaunchFailed rejecting without the emitStorageEvent of the catch.
LaunchFailed_NoEmit(c, err) ==
    /\ calls' = [calls EXCEPT ![c] =
                    IF calls[c].op = "loginPopup" THEN PopupCatch(calls[c], err)
                    ELSE [calls[c] EXCEPT !.pc = "done", !.result = err]]
    /\ emitted' = emitted

\* A failure inside launchProvider reaches its caller: loginPopup's catch
\* (bridge.ts:166-171) or loginSilent's caller (bridge.ts:230, not in a try).
LaunchFailed(c, err) ==
    IF calls[c].op = "loginPopup"
    THEN /\ calls' = [calls EXCEPT ![c] = PopupCatch(calls[c], err)]
         /\ emitted' = emitted \cup {<<c, "error">>}
    ELSE /\ calls' = [calls EXCEPT ![c].pc = "done", ![c].result = err]
         /\ emitted' = emitted

\* bridge.ts:348-355: ParentHandshake succeeds or exhausts its attempts.
HandshakeDone(c, ok) ==
    /\ calls[c].pc = "awaitHandshake"
    /\ IF ok
       THEN /\ frames' = [frames EXCEPT ![c].hs = "ok", ![c].chan = "open"]
            /\ calls' = [calls EXCEPT ![c].pc = "awaitMetadata",
                                      ![c].remote = Append(@, "getProviderMetadata")]
            /\ emitted' = emitted
       ELSE /\ frames' = [frames EXCEPT ![c].hs = "failed"]
            /\ LaunchFailed(c, ErrHandshake)
    /\ router' = Hears(router, emitted, emitted')
    /\ UNCHANGED <<skappInfo, dacs, stored, nextCall, successRouter, fixed>>

\* MetadataDone without controllerPing.cleanup() before the connect call.
MetadataDone_KeepPing(c, m) ==
    /\ calls[c].pc = "awaitMetadata"
    /\ frames[c].chan = "open"
    /\ IF m # RejectedMeta
       THEN /\ frames' = [frames EXCEPT ![c].meta = m, ![c].conn = "pending"]
            /\ emitted' = IF calls[c].op = "loginPopup"
                          THEN emitted \cup {<<c, "success">>} ELSE emitted
            /\ calls' = [calls EXCEPT ![c].pc = "awaitConnect",
                                      ![c].remote = Append(@, IF calls[c].op = "loginPopup"
                                                              THEN "connectPopup"
                                                              ELSE "connectSilent")]
       ELSE /\ frames' = frames
            /\ LaunchFailed(c, ErrRemote)
    /\ router' = Hears(router, emitted, emitted')
    /\ UNCHANGED <<skappInfo, dacs, stored, nextCall, successRouter, fixed>>

\* MetadataDone going on to connectPopup without sending the metadata to the
\* router.
MetadataDone_NoEmit(c, m) ==
    /\ calls[c].pc = "awaitMetadata"
    /\ frames[c].chan = "open"
    /\ IF m # RejectedMeta
       THEN /\ frames' = [frames EXCEPT ![c].meta = m, ![c].conn = "pending"]
            /\ emitted' = emitted
            /\ IF calls[c].op = "loginPopup"
               THEN calls' = [calls EXCEPT ![c].pc = "awaitConnect",
                                           ![c].lPing = FALSE,
                                           ![c].remote = Append(@, "connectPopup")]
               ELSE calls' = [calls EXCEPT ![c].pc = "awaitConnect",
                                           ![c].remote = Append(@, "connectSilent")]
       ELSE /\ frames' = frames
            /\ LaunchFailed(c, ErrRemote)
    /\ router' = Hears(router, emitted, emitted')
    /\ UNCHANGED <<skappInfo, dacs, stored, nextCall, successRouter, fixed>>

\* bridge.ts:355-357 and the caller up to its connect call: loginPopup
\* bridge.ts:164-179, loginSilent bridge.ts:230-239.  The provider answers with
\* its metadata, with null (m = NoMeta), or the call fails (m = RejectedMeta).
MetadataDone(c, m) ==
    /\ calls[c].pc = "awaitMetadata"
    /\ frames[c].chan = "open"
    /\ IF m # RejectedMeta
       THEN /\ frames' = [frames EXCEPT ![c].meta = m, ![c].conn = "pending"]
            /\ IF calls[c].op = "loginPopup"
               THEN /\ emitted' = emitted \cup {<<c, "success">>}
                    /\ calls' = [calls EXCEPT ![c].pc = "awaitConnect",
                                              ![c].lPing = FALSE,
                                              ![c].remote = Append(@, "connectPopup")]
               ELSE /\ emitted' = emitted
                    /\ calls' = [calls EXCEPT ![c].pc = "awaitConnect",
                                              ![c].remote = Append(@, "connectSilent")]
       ELSE /\ frames' = frames
            /\ LaunchFailed(c, ErrRemote)
    /\ router' = Hears(router, emitted, emitted')
    /\ UNCHANGED <<skappInfo, dacs, stored, nextCall, successRouter, fixed>>

\* ------------------------------------------------- connect

\* PopupConnectDone registering the provider whatever connectPopup returned.
PopupConnectDone_RegisterAlways(c, ok) ==
    /\ calls[c].op = "loginPopup"
    /\ calls[c].pc = "awaitConnect"
    /\ frames[c].chan = "open"
    /\ frames' = [frames EXCEPT ![c].conn = IF ok THEN "ok" ELSE "failed"]
    /\ dacs' = setProviderConnected(dacs, calls[c].name, c)
    /\ stored' = saveStoredProvider(stored, calls[c].name, frames[c].meta)
    /\ calls' = [calls EXCEPT ![c] =
                    [Settle(calls[c], "resolved", "executor") EXCEPT !.pc = "done"]]
    /\ UNCHANGED <<skappInfo, emitted, router, nextCall, successRouter, fixed>>

\* PopupConnectDone unloading the provider when connectPopup fails.
PopupConnectDone_Unload(c, ok) ==
    /\ calls[c].op = "loginPopup"
    /\ calls[c].pc = "awaitConnect"
    /\ frames[c].chan = "open"
    /\ IF ok
       THEN /\ frames' = [frames EXCEPT ![c].conn = "ok"]
            /\ dacs' = setProviderConnected(dacs, calls[c].name, c)
            /\ stored' = saveStoredProvider(stored, calls[c].name, frames[c].meta)
            /\ calls' = [calls EXCEPT ![c] =
                            [Settle(calls[c], "resolved", "executor") EXCEPT !.pc = "done"]]
       ELSE /\ frames' = [frames EXCEPT ![c].conn = "failed", ![c].st = "detached",
                                        ![c].chan = "closed"]
            /\ dacs' = dacs
            /\ stored' = stored
            /\ calls' = [calls EXCEPT ![c] = PopupCatch(calls[c], ErrLoginPopup)]
    /\ UNCHANGED <<skappInfo, emitted, router, nextCall, successRouter, fixed>>

\* bridge.ts:179-187: connectPopup returns.
PopupConnectDone(c, ok) ==
    /\ calls[c].op = "loginPopup"
    /\ calls[c].pc = "awaitConnect"
    /\ frames[c].chan = "open"
    /\ IF ok
       THEN /\ frames' = [frames EXCEPT ![c].conn = "ok"]
            /\ dacs' = setProviderConnected(dacs, calls[c].name, c)
            /\ stored' = saveStoredProvider(stored, calls[c].name, frames[c].meta)
            /\ calls' = [calls EXCEPT ![c] =
                            [Settle(calls[c], "resolved", "executor") EXCEPT !.pc = "done"]]
       ELSE /\ frames' = [frames EXCEPT ![c].conn = "failed"]
            /\ dacs' = dacs
            /\ stored' = stored
            /\ calls' = [calls EXCEPT ![c] = PopupCatch(calls[c], ErrLoginPopup)]
    /\ UNCHANGED <<skappInfo, emitted, router, nextCall, successRouter, fixed>>

\* bridge.ts:239-244: connectSilent returns.
SilentConnectDone(c, ok) ==
    /\ calls[c].op = "loginSilent"
    /\ calls[c].pc = "awaitConnect"
    /\ frames[c].chan = "open"
    /\ IF ok
       THEN /\ frames' = [frames EXCEPT ![c].conn = "ok"]
            /\ dacs' = setProviderConnected(dacs, calls[c].name, c)
            /\ calls' = [calls EXCEPT ![c].pc = "done", ![c].result = "resolved"]
       ELSE /\ frames' = [frames EXCEPT ![c].conn = "failed"]
            /\ dacs' = dacs
            /\ calls' = [calls EXCEPT ![c].pc = "done", ![c].result = ErrLoginSilent]
    /\ UNCHANGED <<skappInfo, stored, emitted, router, nextCall, successRouter, fixed>>

\* ------------------------------------------------- logout

\* DisconnectDone without the try/catch around the disconnect call: a rejected
\* disconnect ends logout before the teardown.
DisconnectDone_NoCatch(c, ok) ==
    LET n == calls[c].name
        i == calls[c].info
    IN  /\ calls[c].pc = "awaitDisconnect"
        /\ frames[i].chan = "open"
        /\ IF ok
           THEN /\ dacs' = setProviderDisconnected(dacs, n)
                /\ stored' = clearStoredProvider(stored, n)
                /\ frames' = [frames EXCEPT ![i].st = "detached", ![i].chan = "closed"]
                /\ calls' = [calls EXCEPT ![c].pc = "done", ![c].result = "resolved",
                                          ![c].disc = "ok"]
           ELSE /\ UNCHANGED <<dacs, stored, frames>>
                /\ calls' = [calls EXCEPT ![c].pc = "done", ![c].result = ErrRemote,
                                          ![c].disc = "failed"]
        /\ UNCHANGED <<skappInfo, emitted, router, nextCall, successRouter, fixed>>

\* DisconnectDone calling disconnect a second time when the first call failed.
DisconnectDone_Retry(c, ok) ==
    LET n == calls[c].name
        i == calls[c].info
    IN  /\ calls[c].pc = "awaitDisconnect"
        /\ frames[i].chan = "open"
        /\ IF ~ok /\ Len(calls[c].remote) < 2
           THEN /\ calls' = [calls EXCEPT ![c].remote = Append(@, "disconnect")]
                /\ UNCHANGED <<dacs, stored, frames>>
           ELSE /\ dacs' = setProviderDisconnected(dacs, n)
                /\ stored' = clearStoredProvider(stored, n)
                /\ frames' = [frames EXCEPT ![i].st = "detached", ![i].chan = "closed"]
                /\ calls' = [calls EXCEPT ![c].pc = "done", ![c].result = "resolved",
                                          ![c].disc = IF ok THEN "ok" ELSE "failed"]
        /\ UNCHANGED <<skappInfo, emitted, router, nextCall, successRouter, fixed>>

\* DisconnectDone that leaves the registry entry in place until a later step:
\* the frame is detached and the channel closed while the name is registered.
DisconnectDone_KeepEntry(c, ok) ==
    LET n == calls[c].name
        i == calls[c].info
    IN  /\ calls[c].pc = "awaitDisconnect"
        /\ frames[i].chan = "open"
        /\ dacs' = dacs
        /\ stored' = clearStoredProvider(stored, n)
        /\ frames' = [frames EXCEPT ![i].st = "detached", ![i].chan = "closed"]
        /\ calls' = [calls EXCEPT ![c].pc = "done", ![c].result = "resolved",
                                  ![c].disc = IF ok THEN "ok" ELSE "failed"]
        /\ UNCHANGED <<skappInfo, emitted, router, nextCall, successRouter, fixed>>

\* bridge.ts:260-278: disconnect returns or throws (swallowed), then the teardown.
\* removeChild on a frame with no parentNode throws (bridge.ts:274).
DisconnectDone(c, ok) ==
    LET n == calls[c].name
        i == calls[c].info
    IN  /\ calls[c].pc = "awaitDisconnect"
        /\ frames[i].chan = "open"
        /\ dacs' = setProviderDisconnected(dacs, n)
        /\ stored' = clearStoredProvider(stored, n)
        /\ IF frames[i].st = "attached"
           THEN /\ frames' = [frames EXCEPT ![i].st = "detached", ![i].chan = "closed"]
                /\ calls' = [calls EXCEPT ![c].pc = "done", ![c].result = "resolved",
                                          ![c].disc = IF ok THEN "ok" ELSE "failed"]
           ELSE /\ frames' = frames
                /\ calls' = [calls EXCEPT ![c].pc = "done", ![c].result = ErrTypeError,
                                          ![c].disc = IF ok THEN "ok" ELSE "failed"]
        /\ UNCHANGED <<skappInfo, emitted, router, nextCall, successRouter, fixed>>

\* ------------------------------------------------- call

\* A rest parameter (...args) collects the trailing arguments of a call into one
\* array.
rest(trailing) == Arr(trailing)

\* The remote call of bridge.ts:87 on the connection of provider i:
\* remoteHandle().call("call", method, args).
remoteCall(i, method, args) ==
    [to |-> i, fn |-> "call", params |-> <<Str(method), args>>]

\* Call reporting an unknown name as a provider that is not connected.
Call_UnknownAsNotConnected(n, method, hostArgs) ==
    LET c == nextCall
        status == dacs[n]
        r0 == [IdleCall EXCEPT !.op = "call", !.name = n, !.pc = "start",
                               !.method = method, !.args = hostArgs]
        args == rest(<<rest(hostArgs)>>)
    IN  /\ nextCall \in DOMAIN calls
        /\ nextCall' = nextCall + 1
        /\ calls' = [calls EXCEPT ![c] =
              IF status = 0 \/ frames[status].meta = NoMeta
              THEN [r0 EXCEPT !.pc = "done", !.result = ErrNotConnected]
              ELSE [r0 EXCEPT !.pc = "awaitCall", !.info = status,
                              !.sent = <<remoteCall(status, method, args)>>]]
        /\ UNCHANGED <<skappInfo, dacs, stored, frames, emitted, router, successRouter, fixed>>

\* Call without the check of status.metadata.
Call_NoMetadataCheck(n, method, hostArgs) ==
    LET c == nextCall
        status == dacs[n]
        r0 == [IdleCall EXCEPT !.op = "call", !.name = n, !.pc = "start",
                               !.method = method, !.args = hostArgs]
        args == rest(<<rest(hostArgs)>>)
    IN  /\ nextCall \in DOMAIN calls
        /\ nextCall' = nextCall + 1
        /\ calls' = [calls EXCEPT ![c] =
              IF status = 0
              THEN [r0 EXCEPT !.pc = "done", !.result = ErrNotFound]
              ELSE [r0 EXCEPT !.pc = "awaitCall", !.info = status,
                              !.sent = <<remoteCall(status, method, args)>>]]
        /\ UNCHANGED <<skappInfo, dacs, stored, frames, emitted, router, successRouter, fixed>>

\* bridge.ts:36 and 78-87: the host's call(dacName, method, ...args) handed to
\* Bridge.call(dacName, method, ...args), up to the remote call.
Call(n, method, hostArgs) ==
    LET c == nextCall
        status == dacs[n]
        r0 == [IdleCall EXCEPT !.op = "call", !.name = n, !.pc = "start",
                               !.method = method, !.args = hostArgs]
        \* bridge.ts:36: args collects the host's trailing arguments, and
        \* this.call(dacName, method, args) passes that array as one argument
        outerArgs == rest(hostArgs)
        \* bridge.ts:78: ...args collects the one trailing argument it was given
        args == rest(<<outerArgs>>)
    IN  /\ nextCall \in DOMAIN calls
        /\ nextCall' = nextCall + 1
        /\ calls' = [calls EXCEPT ![c] =
              IF status = 0
              THEN [r0 EXCEPT !.pc = "done", !.result = ErrNotFound]
              ELSE IF frames[status].meta = NoMeta
              THEN [r0 EXCEPT !.pc = "done", !.result = ErrNotConnected]
              ELSE [r0 EXCEPT !.pc = "awaitCall", !.info = status,
                              !.sent = <<remoteCall(status, method, args)>>]]
        /\ UNCHANGED <<skappInfo, dacs, stored, frames, emitted, router, successRouter, fixed>>

\* bridge.ts:87: the provider's answer to the forwarded call is returned to the
\* host, a rejection included.
CallDone(c, r) ==
    /\ calls[c].pc = "awaitCall"
    /\ frames[calls[c].info].chan = "open"
    /\ calls' = [calls EXCEPT ![c].pc = "done",
                              ![c].result = IF r = Rejected THEN ErrRemote ELSE r]
    /\ UNCHANGED <<skappInfo, dacs, stored, frames, emitted, router, nextCall, successRouter, fixed>>

\* ------------------------------------------------- specification

Next ==
    \/ \E s \in SkappInfos : GetBridgeMetadata(s)
    \/ LaunchRouter
    \/ \E n \in Names : StartLoginPopup(n)
    \/ \E n \in Names : StartLoginSilent(n)
    \/ \E n \in Names : StartLogout(n)
    \/ \E u \in Urls \cup {EmptyUrl} : RouterSubmit(u)
    \/ RouterClose
    \/ RouterError
    \/ RouterHang
    \/ \E c \in CallIds : PingTimeout(c)
    \/ \E c \in CallIds, ok \in BOOLEAN : HandshakeDone(c, ok)
    \/ \E c \in CallIds, m \in Metas \cup {NoMeta, RejectedMeta} : MetadataDone(c, m)
    \/ \E c \in CallIds, ok \in BOOLEAN : PopupConnectDone(c, ok)
    \/ \E c \in CallIds, ok \in BOOLEAN : SilentConnectDone(c, ok)
    \/ \E c \in CallIds, ok \in BOOLEAN : DisconnectDone(c, ok)
    \/ \E n \in Names, m \in Methods, a \in ArgLists : Call(n, m, a)
    \/ \E c \in CallIds, r \in Values \cup {Rejected} : CallDone(c, r)

Spec == Init /\ [][Next]_vars

\* The timer of every liveness monitor fires when it is due.
LiveSpec == Spec /\ \A c \in CallIds : WF_vars(PingTimeout(c))

\* ------------------------------------------------- persistence on its own

\* The ProviderMetadata values a provider may report: name and url, and the
\* optional connectorName and connectorW absent, present, or present without a
\* usable value.
MetaValues ==
    {Obj(<< <<"name", Str(a)>>, <<"url", Str(b)>> >> \o cn \o cw) :
        a \in {"p", "q"}, b \in {"p.net", "q.net"},
        cn \in {<<>>, << <<"connectorName", Str("c")>> >>, << <<"connectorName", Undefined>> >>},
        cw \in {<<>>, << <<"connectorW", Num(640)>> >>, << <<"connectorW", NaN>> >>}}

PersistInit ==
    /\ hasLocalStorage = TRUE
    /\ trial \in {[step |-> "input", n |-> n, m |-> m, got |-> Null] :
                      n \in Names, m \in MetaValues}
    /\ BridgeInit

\* saveStoredProvider(n, m) as loginPopup calls it (bridge.ts:181).
TrialSave ==
    /\ trial.step = "input"
    /\ stored' = saveStoredProvider(stored, trial.n, trial.m)
    /\ trial' = [trial EXCEPT !.step = "saved"]
    /\ UNCHANGED <<skappInfo, dacs, frames, calls, emitted, router, nextCall, successRouter, hasLocalStorage>>

\* checkForStoredProvider(n) as loginSilent calls it (bridge.ts:223).
TrialRead ==
    /\ trial.step = "saved"
    /\ trial' = [trial EXCEPT !.step = "read", !.got = checkForStoredProvider(trial.n)]
    /\ UNCHANGED <<skappInfo, dacs, stored, frames, calls, emitted, router, nextCall, successRouter,
                   hasLocalStorage>>

PersistNext == TrialSave \/ TrialRead

PersistSpec == PersistInit /\ [][PersistNext]_vars

\* ------------------------------------------------- a page without localStorage

\* The bridge in a page whose localStorage is null (the test of bridge.ts:291,
\* 305 and 375); a record left by an earlier page load cannot be reached.
NoStorageInit ==
    /\ hasLocalStorage = FALSE
    /\ trial = NoTrial
    /\ BridgeInit

\* loginSilent never reaches connectSilent here: it finds no stored provider.
NoStorageNext ==
    \/ \E s \in SkappInfos : GetBridgeMetadata(s)
    \/ LaunchRouter
    \/ \E n \in Names : StartLoginPopup(n)
    \/ \E n \in Names : StartLoginSilent(n)
    \/ \E n \in Names : StartLogout(n)
    \/ \E u \in Urls \cup {EmptyUrl} : RouterSubmit(u)
    \/ RouterClose
    \/ RouterError
    \/ RouterHang
    \/ \E c \in CallIds : PingTimeout(c)
    \/ \E c \in CallIds, ok \in BOOLEAN : HandshakeDone(c, ok)
    \/ \E c \in CallIds, m \in Metas \cup {NoMeta, RejectedMeta} : MetadataDone(c, m)
    \/ \E c \in CallIds, ok \in BOOLEAN : PopupConnectDone(c, ok)
    \/ \E c \in CallIds, ok \in BOOLEAN : DisconnectDone(c, ok)
    \/ \E n \in Names, m \in Methods, a \in ArgLists : Call(n, m, a)
    \/ \E c \in CallIds, r \in Values \cup {Rejected} : CallDone(c, r)

NoStorageSpec == NoStorageInit /\ [][NoStorageNext]_vars

\* ------------------------------------------------- frame addresses on their own

\* The scheme prefixes an address handed to createIframe may start with.
Schemes == {<<>>, <<"https://">>, <<"http://">>, <<"HTTPS://">>}

\* Addresses with one to three segments.
Addresses ==
    {[scheme |-> sc, segs |-> sg] :
        sc \in Schemes,
        sg \in {<<a>> : a \in {"example", "localhost", "skylink"}}
             \cup {<<a, b>> : a \in {"example", "provider"}, b \in {"com", "net"}}
             \cup {<<"b32", a, b>> : a \in {"siasky"}, b \in {"net", "dev"}}}

NormInit ==
    /\ hasLocalStorage = TRUE
    /\ trial \in {[step |-> "address", u |-> u, once |-> NoSrc, twice |-> NoSrc] :
                      u \in Addresses}
    /\ BridgeInit

\* createIframe(u): the src of the created frame.
NormOnce ==
    /\ trial.step = "address"
    /\ trial' = [trial EXCEPT !.step = "once", !.once = createIframeSrc(trial.u)]
    /\ UNCHANGED <<skappInfo, dacs, stored, frames, calls, emitted, router, nextCall, successRouter,
                   hasLocalStorage>>

\* createIframe applied to the src of that frame.
NormTwice ==
    /\ trial.step = "once"
    /\ trial' = [trial EXCEPT !.step = "twice", !.twice = createIframeSrc(trial.once)]
    /\ UNCHANGED <<skappInfo, dacs, stored, frames, calls, emitted, router, nextCall, successRouter,
                   hasLocalStorage>>

NormNext == NormOnce \/ NormTwice

NormSpec == NormInit /\ [][NormNext]_vars

\* ------------------------------------------------- a host that presents itself again

\* The skappInfo of a later getBridgeMetadata call that differs from the first.
OtherSkappInfos == {"skapp2"}

RehandshakeNext ==
    \/ Next
    \/ \E s \in OtherSkappInfos : GetBridgeMetadata(s)

RehandshakeSpec == Init /\ [][RehandshakeNext]_vars

\* ------------------------------------------------- the address rewrite on its own

\* An address as the string of its characters; "." separates segments.
MaxAddrLen == 5
AddrChars == {"a", "b", "."}

RECURSIVE StringsUpTo(_)
StringsUpTo(n) ==
    IF n = 0 THEN {<<>>}
    ELSE LET shorter == StringsUpTo(n - 1)
         IN  shorter \cup {Append(t, ch) : t \in {x \in shorter : Len(x) = n - 1},
                                            ch \in AddrChars}

RECURSIVE split(_)
\* providerUrl.split(".") of bridge.ts:317: the segments between the dots.
split(str) ==
    IF \A i \in 1..Len(str) : str[i] # "."
    THEN <<str>>
    ELSE LET d == CHOOSE i \in 1..Len(str) :
                      str[i] = "." /\ \A j \in 1..(i - 1) : str[j] # "."
         IN  <<SubSeq(str, 1, d - 1)>> \o split(SubSeq(str, d + 1, Len(str)))

RECURSIVE join(_)
\* providerUrlArr.join(".") of bridge.ts:319.
join(arr) ==
    IF arr = <<>> THEN <<>>
    ELSE IF Len(arr) = 1 THEN arr[1]
    ELSE arr[1] \o <<".">> \o join(Tail(arr))

\* bridge.ts:317-319 on the string that getSkylinkUrl returned.
rewrite(str) == join(splice11(split(str)))

SpliceInit ==
    /\ hasLocalStorage = TRUE
    /\ trial \in {[step |-> "subdomain", str |-> t, out |-> <<>>] :
                      t \in StringsUpTo(MaxAddrLen)}
    /\ BridgeInit

\* The rewrite applied to the address.
SpliceApply ==
    /\ trial.step = "subdomain"
    /\ trial' = [trial EXCEPT !.step = "rewritten", !.out = rewrite(trial.str)]
    /\ UNCHANGED <<skappInfo, dacs, stored, frames, calls, emitted, router, nextCall, successRouter,
                   hasLocalStorage>>

\* The rewritten address handed on to launchProvider (bridge.ts:159-160).
SpliceUse ==
    /\ trial.step = "rewritten"
    /\ trial' = [trial EXCEPT !.step = "used"]
    /\ UNCHANGED <<skappInfo, dacs, stored, frames, calls, emitted, router, nextCall, successRouter,
                   hasLocalStorage>>

SpliceNext == SpliceApply \/ SpliceUse

SpliceSpec == SpliceInit /\ [][SpliceNext]_vars

\* ------------------------------------------------- three calls on one name

\* One call more than MaxCalls, all for the same name: room for a login, a
\* logout and a third call that overlaps them.
OverlapIds == 1..(MaxCalls + 1)
OverlapNames == {"identity"}

\* The bridge after Bridge.initialize, with the router window open.
OverlapInit ==
    /\ hasLocalStorage = TRUE
    /\ trial = NoTrial
    /\ skappInfo = NoInfo
    /\ dacs = [n \in Names |-> 0]
    /\ stored \in StoredAtLoad
    /\ frames = [c \in OverlapIds |-> NoFrame]
    /\ calls = [c \in OverlapIds |-> IdleCall]
    /\ emitted = {}
    /\ router = "open"
    /\ nextCall = 1
    /\ successRouter = FALSE

\* The host's operations on the one name, with a router that answers while its
\* window is open and is not launched again.
OverlapNext ==
    \/ \E s \in SkappInfos : GetBridgeMetadata(s)
    \/ \E n \in OverlapNames : StartLoginPopup(n)
    \/ \E n \in OverlapNames : StartLoginSilent(n)
    \/ \E n \in OverlapNames : StartLogout(n)
    \/ \E u \in Urls : RouterSubmit(u)
    \/ RouterClose
    \/ RouterError
    \/ \E c \in OverlapIds, ok \in BOOLEAN : HandshakeDone(c, ok)
    \/ \E c \in OverlapIds, m \in Metas \cup {NoMeta, RejectedMeta} : MetadataDone(c, m)
    \/ \E c \in OverlapIds, ok \in BOOLEAN : PopupConnectDone(c, ok)
    \/ \E c \in OverlapIds, ok \in BOOLEAN : SilentConnectDone(c, ok)
    \/ \E c \in OverlapIds, ok \in BOOLEAN : DisconnectDone(c, ok)
    \/ \E n \in OverlapNames, m \in Methods, a \in ArgLists : Call(n, m, a)
    \/ \E c \in OverlapIds, r \in Values \cup {Rejected} : CallDone(c, r)

OverlapSpec == OverlapInit /\ [][OverlapNext]_vars

\* ------------------------------------------------- a router that submits addresses

\* The router's form submits the address it was given (part_000:55-80): every
\* value it writes under success-router is an address, never the empty string.
StaleNext ==
    \/ \E s \in SkappInfos : GetBridgeMetadata(s)
    \/ LaunchRouter
    \/ \E n \in Names : StartLoginPopup(n)
    \/ \E n \in Names : StartLoginSilent(n)
    \/ \E n \in Names : StartLogout(n)
    \/ \E u \in Urls : RouterSubmit(u)
    \/ RouterClose
    \/ RouterError
    \/ RouterHang
    \/ \E c \in CallIds : PingTimeout(c)
    \/ \E c \in CallIds, ok \in BOOLEAN : HandshakeDone(c, ok)
    \/ \E c \in CallIds, m \in Metas \cup {NoMeta, RejectedMeta} : MetadataDone(c, m)
    \/ \E c \in CallIds, ok \in BOOLEAN : PopupConnectDone(c, ok)
    \/ \E c \in CallIds, ok \in BOOLEAN : SilentConnectDone(c, ok)
    \/ \E c \in CallIds, ok \in BOOLEAN : DisconnectDone(c, ok)
    \/ \E n \in Names, m \in Methods, a \in ArgLists : Call(n, m, a)
    \/ \E c \in CallIds, r \in Values \cup {Rejected} : CallDone(c, r)

StaleSpec == Init /\ [][StaleNext]_vars

\* ------------------------------------------------- properties

IsLogin(c) == calls[c].op \in {"loginPopup", "loginSilent"}

Listening(c) == calls[c].lUrl \/ calls[c].lLong \/ calls[c].lPing

\* The errors of a failed precondition of a login method.
PreconditionErrors == {ErrNoSkappInfo, ErrAlreadyLoaded, ErrStoredNotFound}

\* Frame f carries a session for name n: launched by a login for n, connect
\* succeeded, not torn down.
LiveSession(f, n) ==
    /\ calls[f].name = n
    /\ frames[f].conn = "ok"
    /\ frames[f].st = "attached"
    /\ frames[f].chan = "open"

\* C1: a login for a name started while an earlier login for the same name is
\* still in flight rejects with the "already loaded" error.  (Calls are numbered
\* in the order they start, so c1 < c2 and c1 pending means c1 was in flight
\* when c2 started.)
C1_SecondLoginRejected ==
    \A c1, c2 \in CallIds :
        ( /\ c1 < c2
          /\ IsLogin(c1) /\ IsLogin(c2)
          /\ calls[c1].name = calls[c2].name
          /\ calls[c1].result = "pending"
          /\ calls[c2].result # ErrNoSkappInfo )
        => calls[c2].result = ErrAlreadyLoaded

\* C2: for every name there is at most one session that completed a successful
\* connect and was not destroyed by logout.
C2_OneSessionPerName ==
    \A n \in Names : Cardinality({f \in CallIds : LiveSession(f, n)}) <= 1

\* C3: while no skappInfo is recorded, every login call rejects with a
\* precondition error and neither launches a frame nor calls connect.
C3_NoLoginWithoutSkappInfo ==
    skappInfo = NoInfo =>
        \A c \in CallIds :
            IsLogin(c) => /\ calls[c].result \in PreconditionErrors
                          /\ frames[c].st = "none"
                          /\ frames[c].conn = "none"

\* C4: every registry entry is a provider whose handshake succeeded and whose
\* connect call resolved successfully.
C4_RegisteredAfterConnect ==
    \A n \in Names :
        dacs[n] # 0 => /\ frames[dacs[n]].hs = "ok"
                       /\ frames[dacs[n]].conn = "ok"
                       /\ calls[dacs[n]].name = n

C4_Witness ==
    \E n \in Names, c \in CallIds :
        /\ dacs[n] # 0
        /\ c # dacs[n]
        /\ frames[c].hs = "ok"
        /\ frames[c].conn \in {"pending", "failed"}

\* C5: logout for a name with no active session rejects with the "not found"
\* error and changes neither the registry, the store, the frames nor the
\* signalling channel.
C5_LogoutNotFound ==
    [][\A n \in Names :
          (StartLogout(n) /\ dacs[n] = 0)
          => /\ calls'[nextCall].result = ErrNotFound
             /\ UNCHANGED <<dacs, stored, frames, emitted>>]_vars

\* C6: a logout for a name with an active session, when its disconnect call
\* returns or throws, resolves and leaves the name out of the registry, its
\* record cleared, the frame detached and the channel closed.
C6_LogoutTeardown ==
    [][\A c \in CallIds :
          (calls[c].pc = "awaitDisconnect" /\ calls'[c].pc = "done")
          => /\ calls'[c].result = "resolved"
             /\ dacs'[calls[c].name] = 0
             /\ stored'[dacStorageKey(calls[c].name)] = NoItem
             /\ frames'[calls[c].info].st = "detached"
             /\ frames'[calls[c].info].chan = "closed"]_vars

C6_Witness ==
    \E c \in CallIds :
        /\ calls[c].op = "logout"
        /\ calls[c].disc = "failed"
        /\ calls[c].result = "resolved"
        /\ frames[calls[c].info].st = "detached"

\* C7: a loginPopup whose router signalled "closed" before any address rejects
\* with the closed error and never launches a provider frame.
C7_ClosedBeforeSuccess ==
    \A c \in CallIds :
        (calls[c].cause = "closed" /\ calls[c].settledAt = "awaitUrl")
        => /\ calls[c].result = ErrWindowClosed
           /\ calls[c].pc = "awaitUrl"
           /\ frames[c].st = "none"

\* The router closed before a choice, and a router launched later has submitted one.
C7_Witness ==
    \E c \in CallIds :
        /\ calls[c].cause = "closed"
        /\ calls[c].settledAt = "awaitUrl"
        /\ router = "submitted"

\* C8: when the liveness monitor times out while the call still waits for the
\* address and no other listener has fired, loginPopup rejects with the timeout
\* error, which is neither the closed error nor a router-reported error.
C8_TimeoutRejects ==
    [][\A c \in CallIds :
          (PingTimeout(c) /\ calls[c].pc = "awaitUrl")
          => /\ calls'[c].result = ErrRouterTimedOut
             /\ calls'[c].result \notin {ErrWindowClosed, ErrRouter}]_vars

C8_Witness ==
    \E c \in CallIds :
        /\ calls[c].cause = "ping"
        /\ calls[c].settledAt = "awaitUrl"
        /\ calls[c].result = ErrRouterTimedOut

\* C9: a loginPopup that waits for the address does not wait forever on a router
\* that does not respond: it settles, unless the router responds again.
C9_UnresponsiveRouterSettles ==
    \A c \in CallIds :
        (calls[c].pc = "awaitUrl" /\ calls[c].result = "pending")
        ~> (router # "closed" \/ calls[c].result # "pending")

\* A call settled by its monitor while its executor still waits for the address
\* of a router that no longer responds.
C9_Witness ==
    \E c \in CallIds :
        /\ calls[c].pc = "awaitUrl"
        /\ calls[c].result # "pending"
        /\ calls[c].cause = "ping"
        /\ router = "closed"

\* C10 as stated: once any of the three listeners of a loginPopup has settled
\* (the provider-URL listener included), all three are unsubscribed, and none is
\* subscribed after the call has settled.
C10_AnySettlementUnsubscribesAll ==
    \A c \in CallIds :
        (calls[c].op = "loginPopup"
            /\ (calls[c].pc # "awaitUrl" \/ calls[c].result # "pending"))
        => ~Listening(c)

\* C10 amended: once loginPopup itself has settled none of its three listeners
\* is subscribed; while it is pending the router listener stays subscribed, also
\* after the provider-URL listener has resolved.
C10_SettledCallHasNoListeners ==
    \A c \in CallIds :
        calls[c].op = "loginPopup"
        => /\ calls[c].result # "pending" => ~Listening(c)
           /\ calls[c].result = "pending" => calls[c].lLong

\* A call rejected by the router listener or the monitor after its provider-URL
\* listener had resolved.
C10_Witness ==
    \E c \in CallIds :
        /\ calls[c].op = "loginPopup"
        /\ calls[c].cause \in {"closed", "routerError", "ping"}
        /\ calls[c].settledAt \in {"awaitHandshake", "awaitMetadata"}
        /\ ~Listening(c)

\* The steps of loginPopup after the provider address has been received.
AfterAddress == {"awaitHandshake", "awaitMetadata", "awaitConnect"}

\* C11 as stated: from the moment loginPopup has received the address, during
\* provider launch, metadata retrieval and connect, a timeout of the liveness
\* monitor does not reject the login.
C11_NoTimeoutAfterAddress ==
    \A c \in CallIds :
        calls[c].cause = "ping" => calls[c].settledAt \notin AfterAddress

\* C11 amended: the liveness monitor is cancelled when the provider's metadata
\* has been sent to the router, before connectPopup is called: while the login
\* waits for connectPopup its monitor is not subscribed and no timeout rejects
\* it; a timeout rejects only while waiting for the address, the handshake or
\* the metadata.
C11_NoTimeoutDuringConnect ==
    \A c \in CallIds :
        /\ (calls[c].op = "loginPopup" /\ calls[c].pc = "awaitConnect") => ~calls[c].lPing
        /\ calls[c].cause = "ping"
             => /\ calls[c].settledAt \in {"awaitUrl", "awaitHandshake", "awaitMetadata"}
                /\ calls[c].result = ErrRouterTimedOut

\* A login waiting for connectPopup, still pending, while the router no longer
\* responds.
C11_Witness ==
    \E c \in CallIds :
        /\ calls[c].op = "loginPopup"
        /\ calls[c].pc = "awaitConnect"
        /\ calls[c].result = "pending"
        /\ router = "closed"

\* The errors of a failed provider launch (handshake, getProviderMetadata).
LaunchErrors == {ErrHandshake, ErrRemote}

\* C12: when the handshake or the metadata call of a provider launched by
\* loginPopup fails, the step that ends the login has written the error to the
\* router's signalling channel, and a login still pending then rejects with the
\* failure; no loginPopup is rejected with a launch error that was not written.
C12_LaunchFailureReported ==
    [][\A c \in CallIds :
          /\ ( /\ calls[c].op = "loginPopup"
               /\ calls[c].pc \in {"awaitHandshake", "awaitMetadata"}
               /\ calls'[c].pc = "done" )
             => /\ <<c, "error">> \in emitted'
                /\ calls[c].result = "pending" => calls'[c].result \in LaunchErrors
          /\ (calls'[c].op = "loginPopup" /\ calls'[c].result \in LaunchErrors)
             => <<c, "error">> \in emitted']_vars

\* Both kinds of launch failure have rejected a loginPopup.
C12_Witness ==
    /\ \E c \in CallIds :
          calls[c].op = "loginPopup" /\ calls[c].result = ErrHandshake
    /\ \E c \in CallIds :
          calls[c].op = "loginPopup" /\ calls[c].result = ErrRemote

\* C13: in the step in which a loginPopup resolves, it resolves with no value,
\* its name is registered with the provider this call launched, the frame of
\* that provider has the normalized form of the address the call received from
\* the router (https scheme, the skylink as the subdomain of the portal), its
\* handshake and connectPopup succeeded, and its metadata is the value that the
\* provider returned.
C13_ResolvedPopupRegistered ==
    [][\A c \in CallIds :
          ( /\ calls[c].op = "loginPopup"
            /\ calls[c].result = "pending"
            /\ calls'[c].result = "resolved" )
          => /\ dacs'[calls[c].name] = c
             /\ calls[c].url \in Urls
             /\ frames'[c].src = [scheme |-> <<"https://">>,
                                  segs |-> <<"b32-" \o calls[c].url.segs[1],
                                             "siasky", "net">>]
             /\ frames'[c].st = "attached"
             /\ frames'[c].hs = "ok"
             /\ frames'[c].conn = "ok"
             /\ frames'[c].meta = frames[c].meta]_vars

\* A loginPopup has resolved and its provider is registered under its name.
C13_Witness ==
    \E c \in CallIds :
        /\ calls[c].op = "loginPopup"
        /\ calls[c].result = "resolved"
        /\ dacs[calls[c].name] = c
        /\ frames[c].meta \in Metas

\* C14: whenever a session is registered for a name (storage being available),
\* the stored record of that name equals the metadata of the registered session.
C14_StoredEqualsRegistered ==
    \A n \in Names :
        dacs[n] # 0 => checkForStoredProvider(n) = frames[dacs[n]].meta

\* C15: a loginSilent that fails because no record is stored, because the
\* handshake or the metadata call of the stored provider fails, or because the
\* provider rejects connectSilent, fails with the one "could not log in
\* silently" error.
C15_SilentFailsWithOneError ==
    \A c \in CallIds :
        ( /\ calls[c].op = "loginSilent"
          /\ calls[c].result \notin {"pending", "resolved", ErrAlreadyLoaded} )
        => calls[c].result = ErrLoginSilent

\* C16: after a loginSilent has failed, the provider it launched is not
\* registered, no frame launched by it is attached with an open channel, and it
\* has written nothing to the router's signalling channel.
C16_FailedSilentLeavesNothing ==
    \A c \in CallIds :
        ( /\ calls[c].op = "loginSilent"
          /\ calls[c].result \notin {"pending", "resolved"} )
        => /\ dacs[calls[c].name] # c
           /\ ~(frames[c].st = "attached" /\ frames[c].chan = "open")
           /\ <<c, "error">> \notin emitted
           /\ <<c, "success">> \notin emitted

\* C17: a loginPopup or loginSilent that fails a precondition (host identity not
\* set, or a session already registered for the name) rejects in the step in
\* which it is called, with "already loaded" when a session is registered, and
\* that step creates no frame, writes nothing to the signalling channel and
\* leaves the registry and the store unchanged.
C17_PreconditionFailureNoEffects ==
    [][\A n \in Names :
          ( /\ (StartLoginPopup(n) \/ StartLoginSilent(n))
            /\ calls'[nextCall].result \in {ErrNoSkappInfo, ErrAlreadyLoaded} )
          => /\ (dacs[n] # 0 /\ skappInfo # NoInfo)
                  => calls'[nextCall].result = ErrAlreadyLoaded
             /\ UNCHANGED <<dacs, stored, frames, emitted>>]_vars

\* C18: a capability call for a name with no registered session rejects, in the
\* step in which it is made, with the "not found" error, and makes no remote
\* call: nothing is sent to any provider and no provider changes.
C18_CallNotFound ==
    [][\A n \in Names, m \in Methods, a \in ArgLists :
          (Call(n, m, a) /\ dacs[n] = 0)
          => /\ calls'[nextCall].result = ErrNotFound
             /\ calls'[nextCall].pc = "done"
             /\ calls'[nextCall].sent = <<>>
             /\ UNCHANGED <<dacs, stored, frames, emitted>>]_vars

\* A call for a name without a session was rejected while the other name had one.
C18_Witness ==
    \E c \in CallIds, n \in Names :
        /\ calls[c].op = "call"
        /\ calls[c].result = ErrNotFound
        /\ n # calls[c].name
        /\ dacs[n] # 0

\* C19: a capability call for a name whose registered session has no metadata
\* rejects, in the step in which it is made, with the "provider not connected"
\* error and makes no remote call.
C19_CallNotConnected ==
    [][\A n \in Names, m \in Methods, a \in ArgLists :
          (Call(n, m, a) /\ dacs[n] # 0 /\ frames[dacs[n]].meta = NoMeta)
          => /\ calls'[nextCall].result = ErrNotConnected
             /\ calls'[nextCall].pc = "done"
             /\ calls'[nextCall].sent = <<>>
             /\ UNCHANGED <<dacs, stored, frames, emitted>>]_vars

\* A call was rejected because the registered session of its name has no metadata.
C19_Witness ==
    \E c \in CallIds :
        /\ calls[c].op = "call"
        /\ calls[c].result = ErrNotConnected
        /\ dacs[calls[c].name] # 0
        /\ frames[dacs[calls[c].name]].meta = NoMeta

\* C20: a capability call on a connected interface sends exactly one remote
\* call, to the provider registered under the name, whose parameters are the
\* method name and the argument list the host passed, unchanged; what the
\* provider answers is what the call returns.
C20_CallForwardedUnchanged ==
    [][\A c \in CallIds :
          /\ \A n \in Names, m \in Methods, a \in ArgLists :
                ( /\ Call(n, m, a)
                  /\ c = nextCall
                  /\ dacs[n] # 0
                  /\ frames[dacs[n]].meta # NoMeta )
                => calls'[c].sent =
                      <<[to |-> dacs[n], fn |-> "call", params |-> <<Str(m), Arr(a)>>]>>
          /\ \A r \in Values :
                CallDone(c, r) => (calls'[c].result = r /\ calls'[c].sent = calls[c].sent)]_vars

\* C21: two loginPopup calls for different names that are in flight together do
\* not share a router signal: no step in which the router submits an address,
\* closes or reports an error resolves, rejects or launches the provider of
\* both.
C21_DistinctNamesIndependent ==
    [][\A c1, c2 \in CallIds :
          ( /\ c1 # c2
            /\ calls[c1].op = "loginPopup" /\ calls[c2].op = "loginPopup"
            /\ calls[c1].name # calls[c2].name
            /\ calls[c1].result = "pending" /\ calls[c2].result = "pending"
            /\ router' # router )
          => ~(calls'[c1] # calls[c1] /\ calls'[c2] # calls[c2])]_vars

RECURSIVE Defined(_)
\* A value without the properties whose value is undefined.
Defined(x) ==
    CASE x.k = "arr" -> Arr([i \in 1..Len(x.v) |-> Defined(x.v[i])])
      [] x.k = "obj" ->
            LET kept == SelectSeq(x.v, LAMBDA e : e[2].k # "undefined")
            IN  Obj([i \in 1..Len(kept) |-> <<kept[i][1], Defined(kept[i][2])>>])
      [] OTHER -> x

\* Deep equality that takes a property with the value undefined for an absent one.
DeepEqual(x, y) == Defined(x) = Defined(y)

RECURSIVE AllFinite(_)
\* No number in the value is NaN.
AllFinite(x) ==
    CASE x.k = "nan" -> FALSE
      [] x.k = "arr" -> \A i \in 1..Len(x.v) : AllFinite(x.v[i])
      [] x.k = "obj" -> \A i \in 1..Len(x.v) : AllFinite(x.v[i][2])
      [] OTHER -> TRUE

C24_NormalizedAddress ==
    trial.step \in {"once", "twice"}
    => /\ trial.u.scheme = <<>> => trial.once = [trial.u EXCEPT !.scheme = <<"https://">>]
       /\ trial.u.scheme # <<>> => trial.once = trial.u
       /\ trial.step = "twice" => trial.twice = trial.once

\* What createIframe does hold: the prefix for an address without scheme, no
\* change for an address starting with https://, and the same result when
\* applied twice.
C24_HttpsOnly ==
    trial.step \in {"once", "twice"}
    => /\ trial.u.scheme = <<>> => trial.once = [trial.u EXCEPT !.scheme = <<"https://">>]
       /\ trial.u.scheme = <<"https://">> => trial.once = trial.u
       /\ trial.step = "twice" => trial.twice = trial.once

\* C25: once a getBridgeMetadata call has recorded the skappInfo, no step
\* changes the recorded skappInfo (the BridgeMetadata is a constructor argument
\* that no method assigns).
C25_SkappInfoAttachedOnce ==
    [][skappInfo # NoInfo => skappInfo' = skappInfo]_vars

\* C26 as stated: when the connectPopup call of a loginPopup rejects, the login
\* is rejected with the 'could not log in with user input' error, registry and
\* store are as before, and the provider frame stays attached with its channel
\* open.
C26_ConnectFailureRejectsWithLoginError ==
    [][\A c \in CallIds :
          (/\ calls[c].op = "loginPopup"
           /\ calls[c].pc = "awaitConnect"
           /\ frames'[c].conn = "failed")
          => /\ calls'[c].result = ErrLoginPopup
             /\ dacs' = dacs
             /\ stored' = stored
             /\ frames'[c].st = "attached"
             /\ frames'[c].chan = "open"]_vars

\* C26 amended: when the connectPopup call of a loginPopup rejects, a login that
\* is still pending is rejected with the 'could not log in with user input'
\* error and a login already rejected keeps its earlier error; registry and
\* store are as before, and the provider frame stays attached with its channel
\* open.
C26_ConnectFailureKeepsProvider ==
    [][\A c \in CallIds :
          (/\ calls[c].op = "loginPopup"
           /\ calls[c].pc = "awaitConnect"
           /\ frames'[c].conn = "failed")
          => /\ calls[c].result # "resolved"
             /\ calls'[c].result = IF calls[c].result = "pending"
                                   THEN ErrLoginPopup ELSE calls[c].result
             /\ dacs' = dacs
             /\ stored' = stored
             /\ frames'[c].st = "attached"
             /\ frames'[c].chan = "open"]_vars

\* A loginPopup rejected because connectPopup failed, its provider frame still
\* attached, next to the record of an earlier page load.
C26_Witness ==
    \E c \in CallIds :
        /\ calls[c].result = ErrLoginPopup
        /\ frames[c].conn = "failed"
        /\ frames[c].st = "attached"
        /\ frames[c].chan = "open"
        /\ dacs[calls[c].name] = 0
        /\ stored[dacStorageKey(calls[c].name)] # NoItem

\* C27: a step that changes the registry entry or the persisted record of name m
\* is a step of calls for m only, and a step that writes a record for m is a
\* step of a loginPopup for m.
C27_OnlyOwnNameTouched ==
    [][\A m \in Names :
          (dacs'[m] # dacs[m] \/ stored'[dacStorageKey(m)] # stored[dacStorageKey(m)])
          => /\ \E c \in CallIds : calls'[c] # calls[c]
             /\ \A c \in CallIds : calls'[c] # calls[c] => calls'[c].name = m
             /\ stored'[dacStorageKey(m)] \notin {stored[dacStorageKey(m)], NoItem}
                => \E c \in CallIds : /\ calls'[c] # calls[c]
                                      /\ calls'[c].op = "loginPopup"]_vars

\* One name has a session and a record that its loginPopup wrote, while a login
\* for the other name has failed at its connect call.
C27_Witness ==
    \E c, d \in CallIds :
        /\ calls[c].name # calls[d].name
        /\ calls[c].op = "loginPopup"
        /\ dacs[calls[c].name] = c
        /\ stored[dacStorageKey(calls[c].name)] = JSONstringify(frames[c].meta)
        /\ frames[c].meta = Meta("m2")
        /\ frames[d].conn = "failed"
        /\ dacs[calls[d].name] = 0

\* C28: one signal written by the router (address, closed, error) is observed by
\* at most one waiting call: a step of the router settles the wait of at most
\* one loginPopup, and a listener that has observed a signal is subscribed no
\* longer.
C28_SignalSettlesOneWait ==
    [][router' # router
       => /\ Cardinality({c \in CallIds : calls'[c] # calls[c]}) <= 1
          /\ \A c \in CallIds :
                (calls[c].lUrl /\ calls'[c] # calls[c]) => ~calls'[c].lUrl]_vars

\* The remote calls of one run of an operation, in the order the code makes them.
RemoteCallsOf(op) ==
    CASE op = "loginPopup" -> <<"getProviderMetadata", "connectPopup">>
      [] op = "loginSilent" -> <<"getProviderMetadata", "connectSilent">>
      [] op = "logout" -> <<"disconnect">>
      [] OTHER -> <<>>

IsPrefix(s, t) == Len(s) <= Len(t) /\ s = SubSeq(t, 1, Len(s))

\* C29: the remote calls a loginPopup, loginSilent or logout has made on the
\* provider are an initial part of getProviderMetadata, connect (or of
\* disconnect), each at most once; a call that has ended makes no further remote
\* call, and a call whose handshake, metadata, connect or disconnect step failed
\* has ended.
C29_RemoteCallsAtMostOnce ==
    [][\A c \in CallIds :
          /\ IsPrefix(calls'[c].remote, RemoteCallsOf(calls'[c].op))
          /\ calls[c].pc = "done" => calls'[c].remote = calls[c].remote
          /\ (calls'[c].op \in {"loginPopup", "loginSilent"}
              /\ (frames'[c].hs = "failed" \/ frames'[c].conn = "failed"))
             => calls'[c].pc = "done"
          /\ calls'[c].disc = "failed" => calls'[c].pc = "done"]_vars

\* A logout whose one disconnect call failed has ended, after a login whose two
\* remote calls were made once each.
C29_Witness ==
    \E c \in CallIds :
        /\ calls[c].op = "logout"
        /\ calls[c].disc = "failed"
        /\ calls[c].pc = "done"
        /\ calls[c].remote = <<"disconnect">>
        /\ Len(calls[calls[c].info].remote) = 2

\* C30: in a loginPopup a frame is launched only from a received address, the
\* metadata is obtained only from a launched provider whose handshake succeeded,
\* the metadata is sent to the router only once obtained, connectPopup is called
\* only after the metadata was sent, the session is registered only after
\* connectPopup succeeded, and the provider is persisted only with the session
\* registered.
C30_LoginPopupStepOrder ==
    [][\A c \in CallIds :
          calls'[c].op = "loginPopup"
          => /\ frames'[c].st # "none" => calls'[c].url \notin {NoSrc, EmptyUrl}
             /\ frames'[c].conn # "none" => (frames'[c].st # "none" /\ frames'[c].hs = "ok")
             /\ <<c, "success">> \in emitted' => frames'[c].conn # "none"
             /\ (\E i \in DOMAIN calls'[c].remote : calls'[c].remote[i] = "connectPopup")
                => <<c, "success">> \in emitted'
             /\ dacs'[calls'[c].name] = c
                => (frames'[c].conn = "ok" /\ Len(calls'[c].remote) = 2)
             /\ (stored' # stored /\ calls'[c] # calls[c])
                => dacs'[calls'[c].name] = c]_vars

\* A loginPopup has gone through all six steps: its provider, not the one of an
\* earlier page load, is registered and persisted.
C30_Witness ==
    \E c \in CallIds :
        /\ calls[c].op = "loginPopup"
        /\ calls[c].result = "resolved"
        /\ calls[c].url \in Urls
        /\ <<c, "success">> \in emitted
        /\ calls[c].remote = <<"getProviderMetadata", "connectPopup">>
        /\ dacs[calls[c].name] = c
        /\ frames[c].meta = Meta("m2")
        /\ stored[dacStorageKey(calls[c].name)] = JSONstringify(Meta("m2"))

\* C31: for every loginPopup, nothing is written to the router once the success
\* signal with the metadata was written, a connectPopup answer writes nothing,
\* and an error is written only for a login that has received an address.
C31_OnlyLaunchSpeaksBack ==
    [][\A c \in CallIds :
          calls'[c].op = "loginPopup"
          => /\ <<c, "success">> \in emitted
                => (<<c, "error">> \in emitted' <=> <<c, "error">> \in emitted)
             /\ calls[c].pc = "awaitConnect"
                => (<<c, "error">> \in emitted' <=> <<c, "error">> \in emitted)
             /\ <<c, "error">> \in emitted' => calls'[c].url \notin {NoSrc, EmptyUrl}]_vars

\* The first two parts alone: nothing is written for a login after its success
\* signal, and a connectPopup answer writes nothing.
C31_NothingAfterSuccess ==
    [][\A c \in CallIds :
          calls'[c].op = "loginPopup"
          => /\ <<c, "success">> \in emitted
                => (<<c, "error">> \in emitted' <=> <<c, "error">> \in emitted)
             /\ calls[c].pc = "awaitConnect"
                => (<<c, "error">> \in emitted' <=> <<c, "error">> \in emitted)]_vars

\* The number of dots of a string.
Dots(str) == Cardinality({i \in 1..Len(str) : str[i] = "."})

\* C32: the rewritten address has the segments of the address without the second
\* one, the others in their order (segment 1, then segments 3, 4, ...), and an
\* address of one segment is returned as it is.
C32_SecondSegmentRemoved ==
    trial.step \in {"rewritten", "used"}
    => LET segs == split(trial.str)
           outs == split(trial.out)
       IN  /\ Len(segs) = Dots(trial.str) + 1
           /\ Len(segs) = 1 => trial.out = trial.str
           /\ Len(segs) >= 2
              => /\ Len(outs) = Len(segs) - 1
                 /\ outs[1] = segs[1]
                 /\ \A i \in 2..Len(outs) : outs[i] = segs[i + 1]

\* An address of three non-empty segments was rewritten to its first and third.
C32_Witness ==
    /\ trial.step = "rewritten"
    /\ trial.str = <<"a", ".", "b", ".", "b">>
    /\ trial.out = <<"a", ".", "b">>

\* C33: whenever a loginPopup that received an address writes its answer
\* (success or error) to the router and the router window is still there, the
\* router's listener for the answer is registered.
C33_AnswerFindsListener ==
    [][\A c \in CallIds :
          (/\ \E k \in {"success", "error"} :
                 <<c, k>> \in emitted' /\ <<c, k>> \notin emitted
           /\ calls'[c].url # NoSrc
           /\ router # "closed")
          => router = "submitted"]_vars

\* The order inside the router: in the step in which a loginPopup receives the
\* address, the router's listener for the answer is already registered.
C33_SubscribedAtSubmit ==
    [][\A c \in CallIds :
          (calls[c].url = NoSrc /\ calls'[c].url # NoSrc) => router' = "submitted"]_vars

\* C34: a loginPopup that has rejected never afterwards registers its provider
\* under its name, and no later step of it changes the store.
C34_RejectedLoginRegistersNothing ==
    [][\A c \in CallIds :
          (/\ calls[c].op = "loginPopup"
           /\ calls[c].result \notin {"pending", "resolved"})
          => /\ dacs[calls[c].name] # c => dacs'[calls[c].name] # c
             /\ calls'[c] # calls[c] => stored' = stored]_vars

\* C35: a logout that resumes from its disconnect call while the registry holds,
\* under its name, another session than the one it found when it started leaves
\* that entry and the persisted record of the name as they are.
C35_LogoutTearsDownOwnSession ==
    [][\A c \in DOMAIN calls :
          (/\ calls[c].pc = "awaitDisconnect"
           /\ calls'[c].pc = "done"
           /\ dacs[calls[c].name] # 0
           /\ dacs[calls[c].name] # calls[c].info)
          => /\ dacs'[calls[c].name] = dacs[calls[c].name]
             /\ stored'[dacStorageKey(calls[c].name)] = stored[dacStorageKey(calls[c].name)]]_vars

\* C36: of the logout calls for a name, none ends with an error other than that
\* of a missing session, and once the session a logout found has been taken
\* down (its channel closed) that logout has ended: resolved, or rejected for the
\* missing session.
C36_OverlappingLogoutsSettle ==
    \A c \in DOMAIN calls :
        calls[c].op = "logout"
        => /\ calls[c].result \in {"pending", "resolved", ErrNotFound, ErrAlreadyLoaded}
           /\ (calls[c].info # 0 /\ frames[calls[c].info].chan = "closed")
              => calls[c].pc = "done"

\* The teardown itself happens once: a step that detaches a frame finds it
\* attached with its channel open.
C36_DetachedOnce ==
    [][\A i \in DOMAIN frames :
          (frames'[i].st = "detached" /\ frames[i].st # "detached")
          => (frames[i].st = "attached" /\ frames[i].chan = "open"
              /\ frames'[i].chan = "closed")]_vars

\* C37: a capability call for a name of which a logout is awaiting the
\* provider's disconnect is rejected and nothing is forwarded to the provider.
C37_NoCallDuringLogout ==
    [][\A c \in DOMAIN calls :
          (/\ calls[c].op = "none"
           /\ calls'[c].op = "call"
           /\ \E d \in DOMAIN calls : /\ calls[d].op = "logout"
                                      /\ calls[d].pc = "awaitDisconnect"
                                      /\ calls[d].name = calls'[c].name)
          => /\ calls'[c].sent = <<>>
             /\ calls'[c].result \notin {"pending", "resolved"}]_vars

\* C38: in every state, a name present in the registry has its provider frame
\* attached to the document and its channel open.
C38_RegisteredSessionLive ==
    \A n \in Names :
        dacs[n] # 0 => /\ frames[dacs[n]].st = "attached"
                       /\ frames[dacs[n]].chan = "open"

\* A logout has taken a session down, and the name is registered again with a
\* live session.
C38_Witness ==
    \E n \in Names, c \in DOMAIN calls :
        /\ calls[c].op = "logout"
        /\ calls[c].result = "resolved"
        /\ calls[c].name = n
        /\ frames[calls[c].info].st = "detached"
        /\ dacs[n] # 0
        /\ dacs[n] # calls[c].info

\* C39: a loginPopup waiting for the provider address never fails for want of a
\* value when every value the router writes is an address: an item left under
\* success-router by an earlier attempt, and the storage event of the router
\* removing it before writing again, do not settle the wait.
C39_StaleKeyHarmless ==
    \A c \in DOMAIN calls :
        calls[c].op = "loginPopup" => calls[c].result # ErrNoValue


====
